---- MODULE Spec2Model ----
(***************************************************************************)
(* Voxel terrain generation, world-view construction and face-culling      *)
(* mesh extraction of Kyuubic (src/src/block.rs, src/src/mesh.rs).         *)
(***************************************************************************)
EXTENDS Integers, Sequences, FiniteSets, TLC

(***************************************************************************)
(* Chunk dimensions.  The source sets CHUNK_SIZE = 32 and CHUNK_HEIGHT =   *)
(* 64 (block.rs:9-10); the model keeps the formulas and scales the two     *)
(* dimensions down, keeping them different from each other.                *)
(***************************************************************************)
CHUNK_SIZE == 2

CHUNK_HEIGHT == 3

SEA_LEVEL == 30

\* CHUNK_HEIGHT as the source sets it: the column heights the noise scaling
\* of create_chunk_heightmap produces run from 0 to this value.
FullChunkHeight == 64

\* Seeds drawn by ChunkMap::new are 0..MaxSeed.
MaxSeed == 3

\* Column heights produced by the noise stand-in are 0..MaxHeight.
MaxHeight == 6

\* generate_terrain is called at most MaxGenCalls times in one behaviour.
MaxGenCalls == 2

\* collect_voxels is called at most MaxCollects times in one behaviour.
MaxCollects == 2

\* Hand-built chunk maps hold at most MaxVoxels voxels placed freely, or an
\* N x N slab with N in 1..MaxSlab, or one voxel with its six neighbours.
MaxVoxels == 2

MaxSlab == 2

\* The loop of generate_mesh takes the entries of a view of up to MaxAnyOrder
\* entries in any order; a larger view in the orders that take the next
\* entry from either end of the ascending key order.
MaxAnyOrder == 7

\* Inputs of the classification chain: world Y in -1..MaxWorldY and
\* column height in -1..MaxColumnHeight (snow line 40, noise scale 64).
MaxWorldY == 66

MaxColumnHeight == 65

\* Ids written by hand into a chunk lie up to MaxBadId outside the valid range.
MaxBadId == 2

\* insert_mesh is called at most MaxInserts times on a collection before it
\* is cleared.
MaxInserts == 2

\* World sizes passed to generate_terrain.
WorldSizes ==
    { [x |-> 1, y |-> 1, z |-> 1], [x |-> 2, y |-> 1, z |-> 1],
      [x |-> 1, y |-> 2, z |-> 1], [x |-> 1, y |-> 1, z |-> 2],
      [x |-> 0, y |-> 1, z |-> 1] }

BlockTypes == {"Air", "Stone", "Dirt", "Grass", "Snow", "Water"}

(***************************************************************************)
(* State.                                                                  *)
(*   seed, chunk_map   ChunkMap.seed and ChunkMap.map                      *)
(*   calls             the world_size arguments generate_terrain was       *)
(*                     called with, in order                               *)
(*   world_map         WorldMap.map, filled by collect_voxels              *)
(*   collects          number of collect_voxels calls so far               *)
(*   call, ret         the arguments and the result of a call of one of    *)
(*                     the pure functions (id formula, decode, material)   *)
(*   pc                position of generate_mesh: "idle" before the call,  *)
(*                     "loop" inside the loop over the view, "done" after  *)
(*                     the return                                          *)
(*   terrain_voxels    the view generate_mesh gathered                     *)
(*   visited           keys of the view the loop has been through          *)
(*   mesh              vertices, indices, normals, colors (and the log of  *)
(*                     add_* calls) of the running invocation              *)
(*   index_offset      the running index offset of generate_mesh           *)
(*   returned          the MeshData of the invocations that returned       *)
(*   collection        a MeshCollection                                    *)
(*   inserted          the meshes insert_mesh was called with since the    *)
(*                     collection was last empty, in order                 *)
(***************************************************************************)
VARIABLES seed, chunk_map, calls, world_map, collects, call, ret,
          pc, terrain_voxels, visited, mesh, index_offset, returned,
          collection, inserted

vars == << seed, chunk_map, calls, world_map, collects, call, ret,
           pc, terrain_voxels, visited, mesh, index_offset, returned,
           collection, inserted >>

collectionVars == << collection, inserted >>

terrainVars == << seed, chunk_map, calls, world_map, collects >>

pureVars == << call, ret >>

meshVars == << pc, terrain_voxels, visited, mesh, index_offset, returned >>

IVec3(x, y, z) == [x |-> x, y |-> y, z |-> z]

Voxel(id, is_solid, block_type) ==
    [id |-> id, is_solid |-> is_solid, block_type |-> block_type]

(***************************************************************************)
(* i32 division and remainder truncate toward zero.                        *)
(***************************************************************************)
i32_div(a, b) == IF a >= 0 THEN a \div b ELSE -((-a) \div b)

i32_rem(a, b) == IF a >= 0 THEN a % b ELSE -((-a) % b)

(***************************************************************************)
(* The id create_chunk_voxels gives the voxel of loop position (x, y, z).  *)
(***************************************************************************)
voxel_id(x, y, z) == x * CHUNK_HEIGHT * CHUNK_SIZE + y * CHUNK_SIZE + z

(***************************************************************************)
(* The local coordinate collect_voxels / gather_voxels reads from an id.   *)
(***************************************************************************)
decode_id(id) ==
    << i32_rem(id, CHUNK_SIZE),
       i32_rem(i32_div(id, CHUNK_SIZE), CHUNK_HEIGHT),
       i32_div(id, CHUNK_SIZE * CHUNK_HEIGHT) >>

(***************************************************************************)
(* Material chain of create_chunk_voxels: voxel_y is the world Y of the    *)
(* voxel, heightmap_value the height of its column.                        *)
(***************************************************************************)
block_type_grass_first(voxel_y, heightmap_value) ==
    IF voxel_y = heightmap_value /\ voxel_y <= heightmap_value THEN "Grass"
    ELSE IF voxel_y >= 40 /\ voxel_y <= heightmap_value THEN "Snow"
    ELSE IF voxel_y > heightmap_value - 10 /\ voxel_y <= heightmap_value THEN "Dirt"
    ELSE IF voxel_y > 0 /\ voxel_y <= heightmap_value THEN "Stone"
    ELSE IF voxel_y <= SEA_LEVEL /\ voxel_y > heightmap_value THEN "Water"
    ELSE "Air"

block_type_of(voxel_y, heightmap_value) ==
    IF voxel_y >= 40 /\ voxel_y <= heightmap_value THEN "Snow"
    ELSE IF voxel_y = heightmap_value /\ voxel_y <= heightmap_value THEN "Grass"
    ELSE IF voxel_y > heightmap_value - 10 /\ voxel_y <= heightmap_value THEN "Dirt"
    ELSE IF voxel_y > 0 /\ voxel_y <= heightmap_value THEN "Stone"
    ELSE IF voxel_y <= SEA_LEVEL /\ voxel_y > heightmap_value THEN "Water"
    ELSE "Air"

is_solid_of(block_type) == block_type # "Air"

(***************************************************************************)
(* Height of world column (voxel_x, voxel_z) for a self_seed.  The three        *)
(* FastNoise samples are a deterministic function of the self_seed and of the   *)
(* two world coordinates; the model stands in a fixed function that is not *)
(* symmetric in them, truncated to 0..MaxHeight.                           *)
(***************************************************************************)
final_noise_value(self_seed, voxel_x, voxel_z) ==
    (self_seed * 7 + voxel_x * 3 + voxel_z * 5 + voxel_x * voxel_z * 2) % (MaxHeight + 1)

(***************************************************************************)
(* create_chunk_heightmap: z is the outer loop, x the inner one, so the    *)
(* height of local column (x, z) is pushed at position z*CHUNK_SIZE + x.   *)
(***************************************************************************)
create_chunk_heightmap(self_seed, chunk_pos) ==
    [ i \in 1 .. CHUNK_SIZE * CHUNK_SIZE |->
        LET x == (i - 1) % CHUNK_SIZE
            z == (i - 1) \div CHUNK_SIZE
        IN  final_noise_value(self_seed, chunk_pos.x * CHUNK_SIZE + x,
                                    chunk_pos.z * CHUNK_SIZE + z) ]

heightmap_index_zmajor(x, z) == z * CHUNK_SIZE + x

heightmap_index(x, z) == x * CHUNK_SIZE + z

(***************************************************************************)
(* create_chunk_voxels: loops z, then x, then y, pushing one voxel per     *)
(* iteration; push number k (from 0) is loop position                      *)
(* z = k / (S*H), x = (k / H) % S, y = k % H.                              *)
(***************************************************************************)
create_chunk_voxels(chunk_pos, heightmap) ==
    [ i \in 1 .. CHUNK_SIZE * CHUNK_HEIGHT * CHUNK_SIZE |->
        LET y == (i - 1) % CHUNK_HEIGHT
            x == ((i - 1) \div CHUNK_HEIGHT) % CHUNK_SIZE
            z == (i - 1) \div (CHUNK_HEIGHT * CHUNK_SIZE)
            voxel_y == chunk_pos.y * CHUNK_HEIGHT + y
            heightmap_value == heightmap[heightmap_index(x, z) + 1]
            block_type == block_type_of(voxel_y, heightmap_value)
        IN  Voxel(voxel_id(x, y, z), is_solid_of(block_type), block_type) ]

generate_chunk(self_seed, chunk_pos) ==
    [voxels |-> create_chunk_voxels(chunk_pos, create_chunk_heightmap(self_seed, chunk_pos))]

(***************************************************************************)
(* generate_terrain: every chunk coordinate of the box [0, world_size) is  *)
(* generated and inserted, overwriting an entry already there.             *)
(***************************************************************************)
terrain_positions_inclusive(world_size) ==
    { IVec3(x, y, z) : x \in 0 .. world_size.x,
                       y \in 0 .. world_size.y,
                       z \in 0 .. world_size.z }

terrain_positions(world_size) ==
    { IVec3(x, y, z) : x \in 0 .. world_size.x - 1,
                       y \in 0 .. world_size.y - 1,
                       z \in 0 .. world_size.z - 1 }

generate_terrain(map, self_seed, world_size) ==
    [ p \in DOMAIN map \cup terrain_positions(world_size) |->
        IF p \in terrain_positions(world_size) THEN generate_chunk(self_seed, p) ELSE map[p] ]

(***************************************************************************)
(* collect_voxels / gather_voxels: every voxel of every chunk is inserted  *)
(* at chunk_pos * dimension + decoded local coordinate; a later insert at  *)
(* the same key replaces the earlier one.  order is the order in which the *)
(* chunk hash map is traversed.                                            *)
(***************************************************************************)
\* world_pos with the chunk's x used for the z offset.
world_pos_of_x_for_z(chunk_pos, id) ==
    LET l == decode_id(id)
    IN  << chunk_pos.x * CHUNK_SIZE + l[1],
           chunk_pos.y * CHUNK_HEIGHT + l[2],
           chunk_pos.x * CHUNK_SIZE + l[3] >>

world_pos_of(chunk_pos, id) ==
    LET l == decode_id(id)
    IN  << chunk_pos.x * CHUNK_SIZE + l[1],
           chunk_pos.y * CHUNK_HEIGHT + l[2],
           chunk_pos.z * CHUNK_SIZE + l[3] >>

\* The loop over chunk.voxels: the voxels are inserted in sequence order, so
\* a key ends up with the last voxel of the sequence that maps to it.
chunk_entries(chunk_pos, voxels) ==
    LET key == [ i \in DOMAIN voxels |-> world_pos_of(chunk_pos, voxels[i].id) ]
    IN  [ k \in { key[i] : i \in DOMAIN voxels } |->
            voxels[CHOOSE i \in DOMAIN voxels :
                       key[i] = k /\ \A j \in i + 1 .. Len(voxels) : key[j] # k] ]

\* The loop over chunk_map.map, from chunk number i of the traversal on:
\* the entries of a chunk replace the ones the map had under the same keys.
RECURSIVE insert_chunks(_, _, _, _)
insert_chunks(map, entries, order, i) ==
    IF i > Len(order) THEN map
    ELSE insert_chunks(entries[order[i]] @@ map, entries, order, i + 1)

\* The traversal orders of a hash map with key set S.
Orders(S) ==
    { o \in [1 .. Cardinality(S) -> S] : \A i, j \in DOMAIN o : i # j => o[i] # o[j] }

EmptyMap == << >>

\* The maps collect_voxels can leave, one per traversal order of the chunks.
collect_voxels(map, chunks) ==
    LET entries == [ p \in DOMAIN chunks |-> chunk_entries(p, chunks[p].voxels) ] @@ EmptyMap
    IN  { insert_chunks(map, entries, order, 1) : order \in Orders(DOMAIN chunks) }


(***************************************************************************)
(* BlockType::color (mesh.rs), the four components in hundredths.          *)
(***************************************************************************)
color(block_type) ==
    CASE block_type = "Air"   -> << 0, 0, 0, 0 >>
      [] block_type = "Stone" -> << 50, 50, 50, 100 >>
      [] block_type = "Dirt"  -> << 50, 25, 0, 100 >>
      [] block_type = "Grass" -> << 0, 50, 0, 100 >>
      [] block_type = "Snow"  -> << 100, 100, 100, 100 >>
      [] block_type = "Water" -> << 0, 0, 100, 10 >>

(***************************************************************************)
(* The mesh under construction: the four arrays of generate_mesh, and      *)
(* faces, the log of the add_* calls made so far (voxel position and       *)
(* direction of each).                                                     *)
(***************************************************************************)
EmptyMesh ==
    [vertices |-> << >>, indices |-> << >>, normals |-> << >>, colors |-> << >>,
     faces |-> << >>]

\* The body shared by the six add_* functions: 4 vertices, the indices
\* 0,1,2,2,3,0 shifted by offset, 4 normals, 4 colours.
add_face(m, dir, voxel_pos, face_vertices, normal, block_type, offset) ==
    [vertices |-> m.vertices \o face_vertices,
     indices  |-> m.indices \o [ i \in 1 .. 6 |-> << 0, 1, 2, 2, 3, 0 >>[i] + offset ],
     normals  |-> m.normals \o << normal, normal, normal, normal >>,
     colors   |-> m.colors \o [ i \in 1 .. 4 |-> color(block_type) ],
     faces    |-> Append(m.faces, << voxel_pos, dir >>)]

add_top(m, p, block_type, offset) ==
    add_face(m, "top", p,
             << << p[1], p[2] + 1, p[3] + 1 >>, << p[1], p[2] + 1, p[3] >>,
                << p[1] + 1, p[2] + 1, p[3] >>, << p[1] + 1, p[2] + 1, p[3] + 1 >> >>,
             << 0, 1, 0 >>, block_type, offset)

add_bottom(m, p, block_type, offset) ==
    add_face(m, "bottom", p,
             << << p[1] + 1, p[2], p[3] + 1 >>, << p[1], p[2], p[3] + 1 >>,
                << p[1], p[2], p[3] >>, << p[1] + 1, p[2], p[3] >> >>,
             << 0, -1, 0 >>, block_type, offset)

add_left(m, p, block_type, offset) ==
    add_face(m, "left", p,
             << << p[1], p[2], p[3] + 1 >>, << p[1], p[2] + 1, p[3] + 1 >>,
                << p[1], p[2] + 1, p[3] >>, << p[1], p[2], p[3] >> >>,
             << -1, 0, 0 >>, block_type, offset)

\* add_right with the corner list of add_left.
add_right_left_corners(m, p, block_type, offset) ==
    add_face(m, "right", p,
             << << p[1], p[2], p[3] + 1 >>, << p[1], p[2] + 1, p[3] + 1 >>,
                << p[1], p[2] + 1, p[3] >>, << p[1], p[2], p[3] >> >>,
             << -1, 0, 0 >>, block_type, offset)

add_right(m, p, block_type, offset) ==
    add_face(m, "right", p,
             << << p[1] + 1, p[2], p[3] + 1 >>, << p[1] + 1, p[2] + 1, p[3] + 1 >>,
                << p[1] + 1, p[2] + 1, p[3] >>, << p[1] + 1, p[2], p[3] >> >>,
             << -1, 0, 0 >>, block_type, offset)

add_front(m, p, block_type, offset) ==
    add_face(m, "front", p,
             << << p[1], p[2], p[3] + 1 >>, << p[1], p[2] + 1, p[3] + 1 >>,
                << p[1] + 1, p[2] + 1, p[3] + 1 >>, << p[1] + 1, p[2], p[3] + 1 >> >>,
             << -1, 0, 0 >>, block_type, offset)

add_back(m, p, block_type, offset) ==
    add_face(m, "back", p,
             << << p[1], p[2], p[3] >>, << p[1], p[2] + 1, p[3] >>,
                << p[1] + 1, p[2] + 1, p[3] >>, << p[1] + 1, p[2], p[3] >> >>,
             << -1, 0, 0 >>, block_type, offset)

(***************************************************************************)
(* The six neighbour coordinates generate_mesh looks up, in the order of   *)
(* its six tests.                                                          *)
(***************************************************************************)
Directions_top_first == << "top", "bottom", "left", "right", "front", "back" >>

Directions == << "bottom", "top", "left", "right", "front", "back" >>

neighbor_pos_left_mirrored(dir, p) ==
    CASE dir = "bottom" -> << p[1], p[2] - 1, p[3] >>
      [] dir = "top"    -> << p[1], p[2] + 1, p[3] >>
      [] dir = "left"   -> << p[1] + 1, p[2], p[3] >>
      [] dir = "right"  -> << p[1] + 1, p[2], p[3] >>
      [] dir = "front"  -> << p[1], p[2], p[3] + 1 >>
      [] dir = "back"   -> << p[1], p[2], p[3] - 1 >>

neighbor_pos(dir, p) ==
    CASE dir = "bottom" -> << p[1], p[2] - 1, p[3] >>
      [] dir = "top"    -> << p[1], p[2] + 1, p[3] >>
      [] dir = "left"   -> << p[1] - 1, p[2], p[3] >>
      [] dir = "right"  -> << p[1] + 1, p[2], p[3] >>
      [] dir = "front"  -> << p[1], p[2], p[3] + 1 >>
      [] dir = "back"   -> << p[1], p[2], p[3] - 1 >>

\* terrain_voxels.get(&pos).map_or(false, |v| v.is_solid)
neighbor_never_solid(view, pos) == FALSE

neighbor_solid_when_absent(view, pos) ==
    IF pos \in DOMAIN view THEN view[pos].is_solid ELSE TRUE

neighbor_is_solid_if_visited(view, pos) ==
    IF pos \in DOMAIN view /\ pos \in visited THEN view[pos].is_solid ELSE FALSE

neighbor_is_solid(view, pos) ==
    IF pos \in DOMAIN view THEN view[pos].is_solid ELSE FALSE

add_dir(m, dir, p, block_type, offset) ==
    CASE dir = "bottom" -> add_bottom(m, p, block_type, offset)
      [] dir = "top"    -> add_top(m, p, block_type, offset)
      [] dir = "left"   -> add_left(m, p, block_type, offset)
      [] dir = "right"  -> add_right(m, p, block_type, offset)
      [] dir = "front"  -> add_front(m, p, block_type, offset)
      [] dir = "back"   -> add_back(m, p, block_type, offset)

\* index_offset += 4 after each add_* call.
next_index_offset_per_cube(offset) == offset + 24

next_index_offset(offset) == offset + 4

(***************************************************************************)
(* One iteration of the loop of generate_mesh over the view entry          *)
(* (p, voxel): the six tests from test number k on, each adding its face   *)
(* and advancing index_offset when the neighbour is absent or not solid.   *)
(* st is [m, index_offset].                                                *)
(***************************************************************************)
RECURSIVE mesh_tests_advance_always(_, _, _, _, _)
mesh_tests_advance_always(st, view, p, voxel, k) ==
    IF k > Len(Directions) THEN st
    ELSE LET dir == Directions[k]
         IN  mesh_tests_advance_always(
                 [m |-> IF ~neighbor_is_solid(view, neighbor_pos(dir, p))
                        THEN add_dir(st.m, dir, p, voxel.block_type, st.index_offset)
                        ELSE st.m,
                  index_offset |-> next_index_offset(st.index_offset)],
                 view, p, voxel, k + 1)

RECURSIVE mesh_tests(_, _, _, _, _)
mesh_tests(st, view, p, voxel, k) ==
    IF k > Len(Directions) THEN st
    ELSE LET dir == Directions[k]
         IN  mesh_tests(
                 IF ~neighbor_is_solid(view, neighbor_pos(dir, p))
                 THEN [m |-> add_dir(st.m, dir, p, voxel.block_type, st.index_offset),
                       index_offset |-> next_index_offset(st.index_offset)]
                 ELSE st,
                 view, p, voxel, k + 1)

\* Ascending order of the view's keys.
key_before(a, b) ==
    \/ a[1] < b[1]
    \/ a[1] = b[1] /\ a[2] < b[2]
    \/ a[1] = b[1] /\ a[2] = b[2] /\ a[3] < b[3]

\* The entries the hash-map iterator may hand out next.
next_entries(view, seen) ==
    LET rest == DOMAIN view \ seen
    IN  IF Cardinality(DOMAIN view) <= MaxAnyOrder THEN rest
        ELSE { p \in rest : (\A q \in rest \ {p} : key_before(p, q))
                               \/ (\A r \in rest \ {p} : key_before(r, p)) }

\* if voxel.is_solid { the six tests }
mesh_voxel_any_voxel(st, view, p) == mesh_tests(st, view, p, view[p], 1)

mesh_voxel(st, view, p) ==
    IF view[p].is_solid THEN mesh_tests(st, view, p, view[p], 1) ELSE st

NoCall == [fn |-> "none"]

\* generate_mesh has not been called.
MeshIdle ==
    /\ pc = "idle" /\ terrain_voxels = EmptyMap /\ visited = {}
    /\ mesh = EmptyMesh /\ index_offset = 0 /\ returned = << >>

(***************************************************************************)
(* MeshCollection (mesh.rs): new, clear and insert_mesh on the four        *)
(* arrays.                                                                 *)
(***************************************************************************)
EmptyCollection ==
    [vertices |-> << >>, indices |-> << >>, normals |-> << >>, colors |-> << >>]

\* MeshCollection::new; no insert_mesh call yet.
CollectionIdle == collection = EmptyCollection /\ inserted = << >>

insert_mesh(coll, m) ==
    [vertices |-> coll.vertices \o m.vertices,
     indices  |-> coll.indices \o m.indices,
     normals  |-> coll.normals \o m.normals,
     colors   |-> coll.colors \o m.colors]

\* A Mesh holding one face of a Stone voxel, as the add_* functions write it
\* into empty arrays.
FaceMesh(dir, p) ==
    LET m == add_dir(EmptyMesh, dir, p, "Stone", 0)
    IN  [vertices |-> m.vertices, indices |-> m.indices,
         normals |-> m.normals, colors |-> m.colors]

FaceMeshes ==
    { FaceMesh(Directions[d], p) : d \in DOMAIN Directions, p \in { << 0, 0, 0 >>, << 1, 0, 0 >> } }

InitCollection ==
    /\ seed = 0 /\ chunk_map = EmptyMap /\ calls = << >>
    /\ world_map = EmptyMap /\ collects = 0
    /\ MeshIdle
    /\ CollectionIdle
    /\ call = NoCall /\ ret = NoCall

InsertMesh(m) ==
    /\ Len(inserted) < MaxInserts
    /\ collection' = insert_mesh(collection, m)
    /\ inserted' = Append(inserted, m)
    /\ UNCHANGED << terrainVars, pureVars, meshVars >>

\* MeshCollection::clear
ClearCollection ==
    /\ collection' = EmptyCollection
    /\ inserted' = << >>
    /\ UNCHANGED << terrainVars, pureVars, meshVars >>

NextCollection ==
    \/ \E m \in FaceMeshes : InsertMesh(m)
    \/ ClearCollection

SpecCollection == InitCollection /\ [][NextCollection]_vars

(***************************************************************************)
(* Pure functions: the id formula, its decode, the material chain.         *)
(***************************************************************************)
InitPure ==
    /\ seed = 0 /\ chunk_map = EmptyMap /\ calls = << >>
    /\ world_map = EmptyMap /\ collects = 0
    /\ MeshIdle
    /\ CollectionIdle
    /\ ret = NoCall
    /\ \/ \E x \in 0 .. CHUNK_SIZE - 1, y \in 0 .. CHUNK_HEIGHT - 1, z \in 0 .. CHUNK_SIZE - 1 :
              call = [fn |-> "voxel_id", x |-> x, y |-> y, z |-> z]
       \/ \E voxel_y \in -1 .. MaxWorldY, heightmap_value \in -1 .. MaxColumnHeight :
              call = [fn |-> "block_type", voxel_y |-> voxel_y,
                      heightmap_value |-> heightmap_value]

\* create_chunk_voxels computes the id of loop position (x, y, z).
AssignId ==
    /\ call.fn = "voxel_id" /\ ret = NoCall
    /\ ret' = [fn |-> "voxel_id", id |-> voxel_id(call.x, call.y, call.z)]
    /\ UNCHANGED << call, terrainVars, meshVars, collectionVars >>

\* collect_voxels / gather_voxels decodes that id.
DecodeId ==
    /\ ret.fn = "voxel_id"
    /\ ret' = [fn |-> "decode", id |-> ret.id, local |-> decode_id(ret.id)]
    /\ UNCHANGED << call, terrainVars, meshVars, collectionVars >>

\* create_chunk_voxels classifies a voxel.
Classify ==
    /\ call.fn = "block_type" /\ ret = NoCall
    /\ ret' = [fn |-> "block_type",
               block_type |-> block_type_of(call.voxel_y, call.heightmap_value),
               is_solid |-> is_solid_of(block_type_of(call.voxel_y, call.heightmap_value))]
    /\ UNCHANGED << call, terrainVars, meshVars, collectionVars >>

NextPure == AssignId \/ DecodeId \/ Classify

SpecPure == InitPure /\ [][NextPure]_vars

(***************************************************************************)
(* Terrain generation and world-view construction.                         *)
(***************************************************************************)
InitTerrain ==
    /\ seed \in 0 .. MaxSeed          \* ChunkMap::new: random seed, empty map
    /\ chunk_map = EmptyMap
    /\ calls = << >>
    /\ world_map = EmptyMap            \* WorldMap::new
    /\ collects = 0
    /\ MeshIdle
    /\ CollectionIdle
    /\ call = NoCall /\ ret = NoCall

GenerateTerrainReseed(world_size) ==
    /\ Len(calls) < MaxGenCalls
    /\ seed' = (seed + 1) % (MaxSeed + 1)
    /\ chunk_map' = generate_terrain(chunk_map, seed', world_size)
    /\ calls' = Append(calls, world_size)
    /\ UNCHANGED << world_map, collects, pureVars, meshVars, collectionVars >>

GenerateTerrain(world_size) ==
    /\ Len(calls) < MaxGenCalls
    /\ chunk_map' = generate_terrain(chunk_map, seed, world_size)
    /\ calls' = Append(calls, world_size)
    /\ UNCHANGED << seed, world_map, collects, pureVars, meshVars, collectionVars >>

CollectVoxels ==
    /\ collects < MaxCollects
    /\ world_map' \in collect_voxels(world_map, chunk_map)
    /\ collects' = collects + 1
    /\ UNCHANGED << seed, chunk_map, calls, pureVars, meshVars, collectionVars >>

NextTerrain ==
    \/ \E world_size \in WorldSizes : GenerateTerrain(world_size)
    \/ CollectVoxels

SpecTerrain == InitTerrain /\ [][NextTerrain]_vars

(***************************************************************************)
(* Chunk::get_voxel on the chunks of a generated terrain, with local       *)
(* coordinates from one below to one above the chunk's range.              *)
(***************************************************************************)
None == [some |-> FALSE]

Some(v) == [some |-> TRUE, voxel |-> v]

\* Vec::get: the element at a position (from 0), None past the end.
vec_get(vec, index) == IF index < Len(vec) THEN Some(vec[index + 1]) ELSE None

get_voxel_unchecked(chunk, x, y, z) ==
    LET index == x * CHUNK_HEIGHT * CHUNK_SIZE + y * CHUNK_SIZE + z
    IN  IF index < 0 THEN None ELSE vec_get(chunk.voxels, index)

get_voxel(chunk, x, y, z) ==
    IF x < 0 \/ x >= CHUNK_SIZE \/ y < 0 \/ y >= CHUNK_HEIGHT \/ z < 0 \/ z >= CHUNK_SIZE
    THEN None
    ELSE LET index == x * CHUNK_HEIGHT * CHUNK_SIZE + y * CHUNK_SIZE + z
         IN  vec_get(chunk.voxels, index)

GetVoxel(chunk_pos, x, y, z) ==
    /\ ret = NoCall
    /\ chunk_pos \in DOMAIN chunk_map
    /\ call' = [fn |-> "get_voxel", chunk_pos |-> chunk_pos, x |-> x, y |-> y, z |-> z]
    /\ ret' = [fn |-> "get_voxel", result |-> get_voxel(chunk_map[chunk_pos], x, y, z)]
    /\ UNCHANGED << terrainVars, meshVars, collectionVars >>

NextLookup ==
    \/ \E world_size \in WorldSizes : GenerateTerrain(world_size)
    \/ \E chunk_pos \in DOMAIN chunk_map :
           \E x \in -1 .. CHUNK_SIZE, y \in -1 .. CHUNK_HEIGHT, z \in -1 .. CHUNK_SIZE :
               GetVoxel(chunk_pos, x, y, z)

SpecLookup == InitTerrain /\ [][NextLookup]_vars

(***************************************************************************)
(* World-view construction from chunks whose voxel sequence was written    *)
(* through the public field Chunk.voxels: one or two voxels whose ids run  *)
(* from MaxBadId below the valid range to MaxBadId above it.               *)
(***************************************************************************)
ChunkVolume == CHUNK_SIZE * CHUNK_HEIGHT * CHUNK_SIZE

ValidIds == 0 .. ChunkVolume - 1

AnyIds == (0 - MaxBadId) .. (ChunkVolume - 1 + MaxBadId)

StoneVoxel(id) == Voxel(id, TRUE, "Stone")

AnyIdChunks ==
    { [voxels |-> << StoneVoxel(i) >>] : i \in AnyIds }
        \cup { [voxels |-> << StoneVoxel(i), StoneVoxel(j) >>] : i \in AnyIds, j \in AnyIds }

InitView ==
    /\ seed = 0
    /\ \E c \in { IVec3(0, 0, 0), IVec3(1, 0, 0) }, chunk \in AnyIdChunks :
           chunk_map = (c :> chunk)
    /\ calls = << >>
    /\ world_map = EmptyMap
    /\ collects = 0
    /\ MeshIdle
    /\ CollectionIdle
    /\ call = NoCall /\ ret = NoCall

NextView == CollectVoxels

SpecView == InitView /\ [][NextView]_vars

(***************************************************************************)
(* Meshing.  Chunk.voxels and ChunkMap.map are public fields: the chunk    *)
(* maps meshed here are built voxel by voxel.  A layout gives the voxels   *)
(* by the world coordinate the view is to hold them at; chunks_of puts     *)
(* each into the chunk that covers the coordinate, under the id whose      *)
(* decode is its local coordinate.                                         *)
(***************************************************************************)
VoxelKinds ==
    { [is_solid |-> FALSE, block_type |-> "Air"],
      [is_solid |-> TRUE, block_type |-> "Stone"],
      [is_solid |-> TRUE, block_type |-> "Water"] }

SolidKinds == { k \in VoxelKinds : k.is_solid }

Centre == << 1, 1, 1 >>

CrossCells ==
    { Centre, << 1, 0, 1 >>, << 1, 2, 1 >>, << 0, 1, 1 >>, << 2, 1, 1 >>,
      << 1, 1, 2 >>, << 1, 1, 0 >> }

SlabCells(n) == { << x, 1, z >> : x \in 0 .. n - 1, z \in 0 .. n - 1 }

FreeLayouts ==
    UNION { [cs -> VoxelKinds] :
              cs \in { c \in SUBSET CrossCells : Cardinality(c) <= MaxVoxels } }

EnclosedLayouts ==
    { [c \in CrossCells |-> IF c = Centre THEN k1 ELSE k2] : k1 \in SolidKinds, k2 \in SolidKinds }

SlabLayouts ==
    { [c \in SlabCells(n) |-> [is_solid |-> TRUE, block_type |-> "Stone"]] : n \in 1 .. MaxSlab }

\* Voxels that are not solid, of any material: is_solid is a public field.
HollowKinds ==
    { [is_solid |-> FALSE, block_type |-> b] : b \in {"Air", "Stone", "Water"} }

\* The centre voxel of any kind under a voxel that is not solid.
HollowLayouts ==
    { [c \in {Centre, << 1, 2, 1 >>} |-> IF c = Centre THEN k1 ELSE k2] :
          k1 \in VoxelKinds \cup HollowKinds, k2 \in HollowKinds }

cell_chunk(w) == IVec3(w[1] \div CHUNK_SIZE, w[2] \div CHUNK_HEIGHT, w[3] \div CHUNK_SIZE)

cell_id(w) ==
    CHOOSE id \in 0 .. CHUNK_SIZE * CHUNK_HEIGHT * CHUNK_SIZE - 1 :
        decode_id(id) = << w[1] % CHUNK_SIZE, w[2] % CHUNK_HEIGHT, w[3] % CHUNK_SIZE >>

\* The voxels of a set, in ascending id order.
RECURSIVE voxel_seq(_)
voxel_seq(vs) ==
    IF vs = {} THEN << >>
    ELSE LET v == CHOOSE v \in vs : \A u \in vs : v.id <= u.id
         IN  << v >> \o voxel_seq(vs \ {v})

chunks_of(layout) ==
    [ c \in { cell_chunk(w) : w \in DOMAIN layout } |->
        [voxels |-> voxel_seq({ Voxel(cell_id(w), layout[w].is_solid, layout[w].block_type) :
                                  w \in { u \in DOMAIN layout : cell_chunk(u) = c } })] ]

InitMeshOf(layouts) ==
    /\ seed = 0
    /\ chunk_map \in { chunks_of(l) : l \in layouts }
    /\ calls = << >> /\ world_map = EmptyMap /\ collects = 0
    /\ call = NoCall /\ ret = NoCall
    /\ MeshIdle
    /\ CollectionIdle

InitMesh == InitMeshOf(FreeLayouts \cup EnclosedLayouts \cup SlabLayouts \cup HollowLayouts)

\* generate_mesh up to the loop: fresh arrays, the view gathered.
BeginMesh ==
    /\ terrain_voxels' \in collect_voxels(EmptyMap, chunk_map)
    /\ visited' = {}
    /\ mesh' = EmptyMesh
    /\ index_offset' = 0
    /\ pc' = "loop"
    /\ UNCHANGED << returned, terrainVars, pureVars, collectionVars >>

StartMesh == pc = "idle" /\ BeginMesh

\* A second invocation on the same chunk map.
StartMeshAgain == pc = "done" /\ Len(returned) = 1 /\ BeginMesh

\* One iteration of the loop: the hash map hands out any entry not yet seen.
MeshVoxel ==
    /\ pc = "loop"
    /\ \E p \in next_entries(terrain_voxels, visited) :
          LET st == mesh_voxel([m |-> mesh, index_offset |-> index_offset],
                               terrain_voxels, p)
          IN  /\ mesh' = st.m
              /\ index_offset' = st.index_offset
              /\ visited' = visited \cup {p}
    /\ UNCHANGED << pc, terrain_voxels, returned, terrainVars, pureVars, collectionVars >>

\* The loop is over: return (vertices, indices, normals, colors).
FinishMesh ==
    /\ pc = "loop" /\ visited = DOMAIN terrain_voxels
    /\ returned' = Append(returned, [vertices |-> mesh.vertices, indices |-> mesh.indices,
                                     normals |-> mesh.normals, colors |-> mesh.colors])
    /\ pc' = "done"
    /\ UNCHANGED << terrain_voxels, visited, mesh, index_offset, terrainVars, pureVars, collectionVars >>

NextMesh == StartMesh \/ MeshVoxel \/ FinishMesh

SpecMesh == InitMesh /\ [][NextMesh]_vars

NextMeshTwice == StartMesh \/ MeshVoxel \/ FinishMesh \/ StartMeshAgain

SpecMeshTwice == InitMeshOf(FreeLayouts) /\ [][NextMeshTwice]_vars

(***************************************************************************)
(* Vocabulary of the properties.  Directions are named as in the           *)
(* specification: top +Y, bottom -Y, left -X, right +X, front +Z, back -Z. *)
(***************************************************************************)
DirNames == { "top", "bottom", "left", "right", "front", "back" }

Adjacent(dir, p) ==
    CASE dir = "top"    -> << p[1], p[2] + 1, p[3] >>
      [] dir = "bottom" -> << p[1], p[2] - 1, p[3] >>
      [] dir = "left"   -> << p[1] - 1, p[2], p[3] >>
      [] dir = "right"  -> << p[1] + 1, p[2], p[3] >>
      [] dir = "front"  -> << p[1], p[2], p[3] + 1 >>
      [] dir = "back"   -> << p[1], p[2], p[3] - 1 >>

\* q is a corner of the unit cube at p, on the side of the cube facing dir.
OnSide(dir, p, q) ==
    /\ \A i \in 1 .. 3 : q[i] \in { p[i], p[i] + 1 }
    /\ CASE dir = "top"    -> q[2] = p[2] + 1
         [] dir = "bottom" -> q[2] = p[2]
         [] dir = "left"   -> q[1] = p[1]
         [] dir = "right"  -> q[1] = p[1] + 1
         [] dir = "front"  -> q[3] = p[3] + 1
         [] dir = "back"   -> q[3] = p[3]

\* The mesh holds the face of the voxel at p in direction dir: an add_* call
\* was made for it and the four vertices it appended lie on that side.
FaceEmitted(dir, p) ==
    \E k \in DOMAIN mesh.faces :
        /\ mesh.faces[k] = << p, dir >>
        /\ 4 * k <= Len(mesh.vertices)
        /\ \A i \in 1 .. 4 : OnSide(dir, p, mesh.vertices[4 * (k - 1) + i])

\* No add_* call was made for the voxel at p.
NoFaceOf(p) == \A k \in DOMAIN mesh.faces : mesh.faces[k][1] # p

\* The arrays hold nothing but the faces of the logged calls.
ArraysMatchFaces ==
    /\ Len(mesh.vertices) = 4 * Len(mesh.faces)
    /\ Len(mesh.indices) = 6 * Len(mesh.faces)
    /\ Len(mesh.normals) = 4 * Len(mesh.faces)
    /\ Len(mesh.colors) = 4 * Len(mesh.faces)

Present(p) == p \in DOMAIN terrain_voxels

SolidAt(p) == Present(p) /\ terrain_voxels[p].is_solid

WaterAt(p) == Present(p) /\ terrain_voxels[p].block_type = "Water"

SolidCells == { p \in DOMAIN terrain_voxels : terrain_voxels[p].is_solid }

(***************************************************************************)
(* C1.  Id round-trip: decoding the id create_chunk_voxels assigns to      *)
(* local (x, y, z) returns exactly (x, y, z).                              *)
(***************************************************************************)
C1_IdRoundTrip ==
    ret.fn = "decode" => ret.local = << call.x, call.y, call.z >>

(***************************************************************************)
(* C3.  Every entry of the world view at world coordinate (wx, wy, wz)     *)
(* carries the material the chain gives wy against the height of world     *)
(* column (wx, wz), whatever chunk and local position it came from.        *)
(***************************************************************************)
C3_TerrainByWorldCoordinate ==
    \A w \in DOMAIN world_map :
        world_map[w].block_type =
            block_type_of(w[2], final_noise_value(seed, w[1], w[3]))

\* A view built from two chunks in which the transposed column (wz, wx)
\* would have given some voxel another material.
C3_Witness ==
    /\ collects >= 1
    /\ Cardinality(DOMAIN chunk_map) = 2
    /\ \E w \in DOMAIN world_map :
          /\ w[1] >= CHUNK_SIZE \/ w[3] >= CHUNK_SIZE
          /\ block_type_of(w[2], final_noise_value(seed, w[1], w[3]))
                # block_type_of(w[2], final_noise_value(seed, w[3], w[1]))

(***************************************************************************)
(* C7.  The material of a voxel with world Y wy in a column of height h is *)
(* that of the first matching rule of: (1) wy >= 40 and wy <= h: Snow;     *)
(* (2) wy = h: Grass; (3) wy > h - 10 and wy <= h: Dirt; (4) wy > 0 and    *)
(* wy <= h: Stone; (5) wy <= SEA_LEVEL and wy > h: Water; (6) Air.         *)
(***************************************************************************)
RuleMatches(k, wy, h) ==
    CASE k = 1 -> wy >= 40 /\ wy <= h
      [] k = 2 -> wy = h
      [] k = 3 -> wy > h - 10 /\ wy <= h
      [] k = 4 -> wy > 0 /\ wy <= h
      [] k = 5 -> wy <= SEA_LEVEL /\ wy > h
      [] k = 6 -> TRUE

RuleMaterial == << "Snow", "Grass", "Dirt", "Stone", "Water", "Air" >>

FirstMatchingRule(wy, h) ==
    CHOOSE k \in 1 .. 6 : RuleMatches(k, wy, h) /\ \A j \in 1 .. k - 1 : ~RuleMatches(j, wy, h)

C7_MaterialClassification ==
    ret.fn = "block_type" =>
        ret.block_type = RuleMaterial[FirstMatchingRule(call.voxel_y, call.heightmap_value)]

\* The surface voxel of a column that reaches the snow line: rules 1 and 2
\* both match and the first one wins.
C7_Witness ==
    /\ ret.fn = "block_type"
    /\ call.voxel_y = call.heightmap_value /\ call.voxel_y >= 40
    /\ ret.block_type = "Snow"

C2_WaterTransparency ==
    pc = "done" =>
        \A p \in DOMAIN terrain_voxels : \A dir \in DirNames :
            ( /\ SolidAt(p) /\ ~WaterAt(p)
              /\ WaterAt(Adjacent(dir, p)) )
            => FaceEmitted(dir, p)

(***************************************************************************)
(* C4.  Mesh consistency: in the MeshData generate_mesh returns, whatever  *)
(* the chunk map and the traversal order, the number of indices is a       *)
(* multiple of 6, vertices, normals and colours have one length, and every *)
(* index is below the number of vertices.                                  *)
(***************************************************************************)
C4_MeshConsistency ==
    \A n \in DOMAIN returned :
        LET r == returned[n]
        IN  /\ Len(r.indices) % 6 = 0
            /\ Len(r.vertices) = Len(r.normals)
            /\ Len(r.normals) = Len(r.colors)
            /\ \A i \in DOMAIN r.indices :
                   r.indices[i] >= 0 /\ r.indices[i] < Len(r.vertices)

\* A returned mesh of two solid voxels that touch: each has a suppressed
\* face, so the second voxel's indices start at an offset that is not a
\* multiple of 24.
C4_Witness ==
    /\ pc = "done" /\ Len(returned) = 1
    /\ Cardinality(SolidCells) = 2
    /\ \E p \in SolidCells : \E dir \in DirNames : Adjacent(dir, p) \in SolidCells
    /\ Len(returned[1].vertices) = 40
    /\ Len(returned[1].indices) = 60

(***************************************************************************)
(* C5.  Closed surface: when generate_mesh has returned, a solid voxel     *)
(* whose six neighbours are all present, solid and not Water has no face   *)
(* in the mesh, and the arrays hold nothing beyond the emitted faces.      *)
(***************************************************************************)
Enclosed(p) ==
    /\ SolidAt(p)
    /\ \A dir \in DirNames : SolidAt(Adjacent(dir, p)) /\ ~WaterAt(Adjacent(dir, p))

C5_ClosedSurface ==
    pc = "done" =>
        /\ ArraysMatchFaces
        /\ \A p \in DOMAIN terrain_voxels : Enclosed(p) => NoFaceOf(p)

\* The enclosed voxel has been meshed with its six neighbours: the 30 faces
\* of the mesh are the five outer faces of each neighbour.
C5_Witness ==
    /\ pc = "done"
    /\ Enclosed(Centre)
    /\ NoFaceOf(Centre)
    /\ Len(mesh.faces) = 30 /\ Len(mesh.vertices) = 120

(***************************************************************************)
(* C6.  Boundary visibility: when generate_mesh has returned, every solid  *)
(* voxel has its face emitted in every direction in which the view has no  *)
(* entry at the neighbouring coordinate.                                   *)
(***************************************************************************)
C6_BoundaryVisibility ==
    pc = "done" =>
        \A p \in DOMAIN terrain_voxels : \A dir \in DirNames :
            (SolidAt(p) /\ ~Present(Adjacent(dir, p))) => FaceEmitted(dir, p)

\* A solid voxel with a solid neighbour on one side and no entry on another.
C6_Witness ==
    /\ pc = "done"
    /\ \E p \in SolidCells : \E d1, d2 \in DirNames :
          /\ SolidAt(Adjacent(d1, p))
          /\ ~Present(Adjacent(d2, p))
          /\ FaceEmitted(d2, p) /\ ~FaceEmitted(d1, p)

(***************************************************************************)
(* C10.  Flat slab: when the solid voxels of the view are an N x N         *)
(* single-layer slab of non-Water voxels (nothing else in the view is      *)
(* solid), the returned mesh has exactly 2*N*N + 4*N faces, four vertices  *)
(* and six indices for each, and no face lies between two slab voxels.     *)
(***************************************************************************)
IsSlab(n) ==
    /\ \E c \in SolidCells :
          SolidCells = { << c[1] + i, c[2], c[3] + j >> : i \in 0 .. n - 1, j \in 0 .. n - 1 }
    /\ \A p \in SolidCells : ~WaterAt(p)

C10_FlatSlab ==
    pc = "done" =>
        \A n \in 1 .. Cardinality(SolidCells) :
            IsSlab(n) =>
                /\ Len(mesh.faces) = 2 * n * n + 4 * n
                /\ Len(mesh.vertices) = 4 * (2 * n * n + 4 * n)
                /\ Len(mesh.indices) = 6 * (2 * n * n + 4 * n)
                /\ \A k \in DOMAIN mesh.faces :
                       Adjacent(mesh.faces[k][2], mesh.faces[k][1]) \notin SolidCells

\* A 2 x 2 slab has been meshed: 16 faces.
C10_Witness ==
    /\ pc = "done"
    /\ IsSlab(2)
    /\ Len(mesh.faces) = 16 /\ Len(mesh.vertices) = 64 /\ Len(mesh.indices) = 96

(***************************************************************************)
(* C9.  Two invocations of generate_mesh on the same, unmodified chunk map *)
(* return the same MeshData: the same vertices, indices, normals and       *)
(* colors sequences, whatever the traversal order of the view.             *)
(***************************************************************************)
C9_SameMeshData ==
    Len(returned) = 2 => returned[1] = returned[2]

(***************************************************************************)
(* C9, amended.  Two invocations on the same, unmodified chunk map return  *)
(* the same faces, each the same number of times: a face is its four       *)
(* vertices, four normals, four colours and its six indices taken relative *)
(* to its first vertex.  The order of the faces in the arrays may differ.  *)
(***************************************************************************)
FaceCount(r) == Len(r.vertices) \div 4

FaceRecord(r, k) ==
    [vertices |-> SubSeq(r.vertices, 4 * k - 3, 4 * k),
     normals  |-> SubSeq(r.normals, 4 * k - 3, 4 * k),
     colors   |-> SubSeq(r.colors, 4 * k - 3, 4 * k),
     indices  |-> [ i \in 1 .. 6 |-> r.indices[6 * (k - 1) + i] - 4 * (k - 1) ]]

FaceBag(r) ==
    LET fs == { FaceRecord(r, k) : k \in 1 .. FaceCount(r) }
    IN  [ f \in fs |-> Cardinality({ k \in 1 .. FaceCount(r) : FaceRecord(r, k) = f }) ]

C9_SameFaces ==
    Len(returned) = 2 =>
        /\ Len(returned[1].vertices) = Len(returned[2].vertices)
        /\ Len(returned[1].indices) = Len(returned[2].indices)
        /\ Len(returned[1].normals) = Len(returned[2].normals)
        /\ Len(returned[1].colors) = Len(returned[2].colors)
        /\ FaceBag(returned[1]) = FaceBag(returned[2])

\* Two invocations whose traversal orders differed: the arrays differ.
C9_Witness ==
    /\ Len(returned) = 2
    /\ returned[1] # returned[2]
    /\ Len(returned[1].vertices) > 0

(***************************************************************************)
(* C11.  A voxel with is_solid = FALSE never emits geometry: at every      *)
(* point of generate_mesh each face in the mesh was added for a voxel of   *)
(* the view with is_solid = TRUE, the arrays hold nothing beyond those     *)
(* faces, and a view without a solid voxel returns four empty arrays.      *)
(***************************************************************************)
C11_NonSolidEmitsNothing ==
    /\ \A k \in DOMAIN mesh.faces : SolidAt(mesh.faces[k][1])
    /\ ArraysMatchFaces
    /\ (pc = "done" /\ SolidCells = {}) =>
           \A n \in DOMAIN returned :
               /\ returned[n].vertices = << >> /\ returned[n].indices = << >>
               /\ returned[n].normals = << >> /\ returned[n].colors = << >>

\* A view of two voxels that are not solid, one of them Stone, has been
\* meshed: nothing was emitted.
C11_Witness ==
    /\ pc = "done" /\ Len(returned) = 1
    /\ Cardinality(DOMAIN terrain_voxels) = 2
    /\ SolidCells = {}
    /\ \E p \in DOMAIN terrain_voxels : terrain_voxels[p].block_type = "Stone"
    /\ returned[1].vertices = << >> /\ returned[1].indices = << >>

(***************************************************************************)
(* C12.  Malformed id decode fails fast: collect_voxels does not return    *)
(* (it aborts) when a chunk of the map holds a voxel whose id is outside   *)
(* 0 .. CHUNK_SIZE*CHUNK_HEIGHT*CHUNK_SIZE - 1; so once it has returned,   *)
(* every voxel id of the chunk map is within that range.                   *)
(***************************************************************************)
C12_MalformedIdFailsFast ==
    collects >= 1 =>
        \A c \in DOMAIN chunk_map : \A i \in DOMAIN chunk_map[c].voxels :
            chunk_map[c].voxels[i].id \in ValidIds

(***************************************************************************)
(* C13.  Chunk::get_voxel(x, y, z) on a generated chunk returns None for   *)
(* every (x, y, z) outside [0,CHUNK_SIZE) x [0,CHUNK_HEIGHT) x             *)
(* [0,CHUNK_SIZE) and Some voxel for every (x, y, z) inside it.            *)
(***************************************************************************)
InRange(x, y, z) ==
    /\ 0 <= x /\ x < CHUNK_SIZE
    /\ 0 <= y /\ y < CHUNK_HEIGHT
    /\ 0 <= z /\ z < CHUNK_SIZE

C13_GetVoxelBounds ==
    ret.fn = "get_voxel" =>
        IF InRange(call.x, call.y, call.z)
        THEN ret.result.some /\ ret.result.voxel \in
                 { chunk_map[call.chunk_pos].voxels[i] : i \in DOMAIN chunk_map[call.chunk_pos].voxels }
        ELSE ret.result = None

\* A lookup at x = -1 whose index expression is nevertheless a position of
\* the array returned None.
C13_Witness ==
    /\ ret.fn = "get_voxel"
    /\ call.x = -1 /\ call.y = CHUNK_HEIGHT /\ call.z = CHUNK_SIZE
    /\ ret.result = None

(***************************************************************************)
(* C14.  After one generate_terrain(world_size) on an empty ChunkMap the   *)
(* chunk coordinates in the map are exactly the (x, y, z) with             *)
(* 0 <= x < world_size.x, 0 <= y < world_size.y, 0 <= z < world_size.z     *)
(* (none when a component is <= 0), and every chunk has exactly            *)
(* CHUNK_SIZE*CHUNK_HEIGHT*CHUNK_SIZE voxels.                              *)
(***************************************************************************)
InBox(p, world_size) ==
    /\ 0 <= p.x /\ p.x < world_size.x
    /\ 0 <= p.y /\ p.y < world_size.y
    /\ 0 <= p.z /\ p.z < world_size.z

C14_TerrainCoverage ==
    Len(calls) = 1 =>
        /\ \A p \in DOMAIN chunk_map : InBox(p, calls[1])
        /\ \A x \in -1 .. calls[1].x, y \in -1 .. calls[1].y, z \in -1 .. calls[1].z :
               InBox(IVec3(x, y, z), calls[1]) => IVec3(x, y, z) \in DOMAIN chunk_map
        /\ \A p \in DOMAIN chunk_map :
               Len(chunk_map[p].voxels) = CHUNK_SIZE * CHUNK_HEIGHT * CHUNK_SIZE

\* One call with world_size (1, 2, 1): two chunks, stacked in Y.
C14_Witness ==
    /\ Len(calls) = 1 /\ calls[1] = IVec3(1, 2, 1)
    /\ DOMAIN chunk_map = { IVec3(0, 0, 0), IVec3(0, 1, 0) }

(***************************************************************************)
(* C15.  In every generated chunk the voxel stored at array position i     *)
(* (from 0) has id i, so that Chunk::get_voxel(x, y, z) with (x, y, z) in  *)
(* range returns the voxel whose id is                                     *)
(* x*CHUNK_HEIGHT*CHUNK_SIZE + y*CHUNK_SIZE + z.                           *)
(***************************************************************************)
C15_ArrayAddressedById ==
    /\ \A p \in DOMAIN chunk_map : \A i \in DOMAIN chunk_map[p].voxels :
           chunk_map[p].voxels[i].id = i - 1
    /\ (ret.fn = "get_voxel" /\ InRange(call.x, call.y, call.z)) =>
           /\ ret.result.some
           /\ ret.result.voxel.id =
                  call.x * CHUNK_HEIGHT * CHUNK_SIZE + call.y * CHUNK_SIZE + call.z

(***************************************************************************)
(* C16.  Six-face emission order: the faces generate_mesh appends for a    *)
(* solid voxel are contiguous in the output and appear in the order top,   *)
(* bottom, left, right, front, back, suppressed faces being skipped.       *)
(***************************************************************************)
RankIn(order, dir) == CHOOSE i \in DOMAIN order : order[i] = dir

\* The faces of each voxel are next to each other in the output, each
\* direction at most once, in the given order of directions; the four
\* vertices of each lie on the side of the cube its direction names.
FacesInOrder(order) ==
    /\ ArraysMatchFaces
    /\ \A k \in DOMAIN mesh.faces :
           \A i \in 1 .. 4 :
               OnSide(mesh.faces[k][2], mesh.faces[k][1], mesh.vertices[4 * (k - 1) + i])
    /\ \A k1, k2 \in DOMAIN mesh.faces :
           (k1 < k2 /\ mesh.faces[k1][1] = mesh.faces[k2][1]) =>
               /\ \A k \in k1 .. k2 : mesh.faces[k][1] = mesh.faces[k1][1]
               /\ RankIn(order, mesh.faces[k1][2]) < RankIn(order, mesh.faces[k2][2])

C16_EmissionOrderTopFirst ==
    FacesInOrder(<< "top", "bottom", "left", "right", "front", "back" >>)

(***************************************************************************)
(* C16, amended.  The faces generate_mesh appends for a solid voxel are    *)
(* contiguous in the output and appear in the order bottom, top, left,     *)
(* right, front, back, suppressed faces being skipped.                     *)
(***************************************************************************)
C16_EmissionOrderBottomFirst ==
    FacesInOrder(<< "bottom", "top", "left", "right", "front", "back" >>)

\* Two solid voxels side by side have been meshed: five faces each, the
\* bottom face of each before its top face, one voxel after the other.
C16_Witness ==
    /\ pc = "done"
    /\ Cardinality(SolidCells) = 2
    /\ Len(mesh.faces) = 10
    /\ mesh.faces[1][2] = "bottom" /\ mesh.faces[2][2] = "top"
    /\ mesh.faces[6][2] = "bottom" /\ mesh.faces[7][2] = "top"
    /\ mesh.faces[1][1] = mesh.faces[5][1] /\ mesh.faces[6][1] = mesh.faces[10][1]
    /\ mesh.faces[1][1] # mesh.faces[6][1]

(***************************************************************************)
(* C17.  Flat normals per direction: every emitted face carries four       *)
(* identical normals equal to its direction's unit vector: top (0,1,0),    *)
(* bottom (0,-1,0), left (-1,0,0), right (1,0,0), front (0,0,1),           *)
(* back (0,0,-1).                                                          *)
(***************************************************************************)
UnitVector(dir) ==
    CASE dir = "top"    -> << 0, 1, 0 >>
      [] dir = "bottom" -> << 0, -1, 0 >>
      [] dir = "left"   -> << -1, 0, 0 >>
      [] dir = "right"  -> << 1, 0, 0 >>
      [] dir = "front"  -> << 0, 0, 1 >>
      [] dir = "back"   -> << 0, 0, -1 >>

C17_FlatNormals ==
    /\ Len(mesh.normals) = 4 * Len(mesh.faces)
    /\ \A k \in DOMAIN mesh.faces : \A i \in 1 .. 4 :
           mesh.normals[4 * (k - 1) + i] = UnitVector(mesh.faces[k][2])

(***************************************************************************)
(* C18.  Running index offset: index_offset equals the number of vertices  *)
(* appended so far, 4 times the number of faces emitted so far, and was so *)
(* when each face was emitted (the face's first index is the number of     *)
(* vertices before it); an iteration of the loop raises it by 4 for each   *)
(* face it emits and leaves it unchanged for a suppressed face and for a   *)
(* voxel that is not solid.                                                *)
(***************************************************************************)
OpenSides(p) == { dir \in DirNames : ~SolidAt(Adjacent(dir, p)) }

C18_RunningIndexOffset ==
    /\ [] ( /\ index_offset = Len(mesh.vertices)
            /\ index_offset = 4 * Len(mesh.faces)
            /\ Len(mesh.indices) = 6 * Len(mesh.faces)
            /\ \A k \in DOMAIN mesh.faces : mesh.indices[6 * (k - 1) + 1] = 4 * (k - 1) )
    /\ [][ (pc = "loop" /\ pc' = "loop" /\ visited' # visited) =>
              \E p \in visited' \ visited :
                  /\ index_offset' - index_offset = 4 * (Len(mesh'.faces) - Len(mesh.faces))
                  /\ index_offset' = index_offset +
                         (IF SolidAt(p) THEN 4 * Cardinality(OpenSides(p)) ELSE 0) ]_vars

\* Two solid voxels that touch have been meshed: one face of each was
\* suppressed and the offset ended at 40.
C18_Witness ==
    /\ pc = "done"
    /\ Cardinality(SolidCells) = 2
    /\ \A p \in SolidCells : Cardinality(OpenSides(p)) = 5
    /\ index_offset = 40 /\ Len(mesh.vertices) = 40

(***************************************************************************)
(* C19.  Face layout: each face emitted for a voxel at world (x, y, z)     *)
(* appends exactly 4 distinct vertices, all corners of the unit cube       *)
(* [x,x+1] x [y,y+1] x [z,z+1] on the face's side of the cube (top y+1,    *)
(* bottom y, left x, right x+1, front z+1, back z), and exactly 6 indices  *)
(* b+0, b+1, b+2, b+2, b+3, b+0, b being the number of vertices in the     *)
(* mesh before the face.                                                   *)
(***************************************************************************)
FaceCorners(k) == { mesh.vertices[4 * (k - 1) + i] : i \in 1 .. 4 }

C19_FaceLayout ==
    /\ Len(mesh.vertices) = 4 * Len(mesh.faces)
    /\ Len(mesh.indices) = 6 * Len(mesh.faces)
    /\ \A k \in DOMAIN mesh.faces :
           LET p == mesh.faces[k][1]
               dir == mesh.faces[k][2]
               b == 4 * (k - 1)
           IN  /\ Cardinality(FaceCorners(k)) = 4
               /\ \A q \in FaceCorners(k) :
                      /\ q[1] \in { p[1], p[1] + 1 }
                      /\ q[2] \in { p[2], p[2] + 1 }
                      /\ q[3] \in { p[3], p[3] + 1 }
                      /\ dir = "top" => q[2] = p[2] + 1
                      /\ dir = "bottom" => q[2] = p[2]
                      /\ dir = "left" => q[1] = p[1]
                      /\ dir = "right" => q[1] = p[1] + 1
                      /\ dir = "front" => q[3] = p[3] + 1
                      /\ dir = "back" => q[3] = p[3]
               /\ SubSeq(mesh.indices, 6 * (k - 1) + 1, 6 * k)
                      = << b, b + 1, b + 2, b + 2, b + 3, b >>

\* A lone solid voxel has been meshed: six faces, the last one written
\* after 20 vertices.
C19_Witness ==
    /\ pc = "done"
    /\ Len(mesh.faces) = 6 /\ Len(mesh.vertices) = 24
    /\ \A dir \in DirNames : \E k \in 1 .. 6 : mesh.faces[k][2] = dir
    /\ SubSeq(mesh.indices, 31, 36) = << 20, 21, 22, 22, 23, 20 >>

(***************************************************************************)
(* C20.  World-view construction visits every voxel once, without          *)
(* collisions: when collect_voxels returns on a chunk map with k chunks    *)
(* the view has exactly k*CHUNK_SIZE*CHUNK_HEIGHT*CHUNK_SIZE entries, and  *)
(* every voxel of the chunk at c is stored at a world coordinate inside    *)
(* [c.x*CHUNK_SIZE, (c.x+1)*CHUNK_SIZE) x [c.y*CHUNK_HEIGHT,               *)
(* (c.y+1)*CHUNK_HEIGHT) x [c.z*CHUNK_SIZE, (c.z+1)*CHUNK_SIZE).           *)
(***************************************************************************)
InChunkBox(w, c) ==
    /\ c.x * CHUNK_SIZE <= w[1] /\ w[1] < (c.x + 1) * CHUNK_SIZE
    /\ c.y * CHUNK_HEIGHT <= w[2] /\ w[2] < (c.y + 1) * CHUNK_HEIGHT
    /\ c.z * CHUNK_SIZE <= w[3] /\ w[3] < (c.z + 1) * CHUNK_SIZE

ViewHoldsEveryVoxelOnce(view, chunks) ==
    /\ Cardinality(DOMAIN view)
           = Cardinality(DOMAIN chunks) * CHUNK_SIZE * CHUNK_HEIGHT * CHUNK_SIZE
    /\ \A c \in DOMAIN chunks :
           LET box == { w \in DOMAIN view : InChunkBox(w, c) }
           IN  /\ Cardinality(box) = Len(chunks[c].voxels)
               /\ { view[w] : w \in box }
                      = { chunks[c].voxels[i] : i \in DOMAIN chunks[c].voxels }

C20_ViewWithoutCollisions ==
    [][ collects' = collects + 1 => ViewHoldsEveryVoxelOnce(world_map', chunk_map') ]_vars

\* A view of three chunks, two side by side in X and one on top: 3 times
\* the chunk volume entries.
C20_Witness ==
    /\ collects >= 1
    /\ DOMAIN chunk_map = { IVec3(0, 0, 0), IVec3(1, 0, 0), IVec3(0, 1, 0) }
    /\ Cardinality(DOMAIN world_map) = 3 * CHUNK_SIZE * CHUNK_HEIGHT * CHUNK_SIZE

(***************************************************************************)
(* C21.  Uniform winding: the right-hand-rule normal (v1-v0) x (v2-v0) of  *)
(* the two triangles of a face (indices 0,1,2 and 2,3,0 of the face) have  *)
(* one direction, and the sign of that direction along the face's outward  *)
(* axis is the same for all faces of the mesh, whatever their direction.   *)
(***************************************************************************)
Minus(a, b) == << a[1] - b[1], a[2] - b[2], a[3] - b[3] >>

Cross(a, b) ==
    << a[2] * b[3] - a[3] * b[2], a[3] * b[1] - a[1] * b[3], a[1] * b[2] - a[2] * b[1] >>

Dot(a, b) == a[1] * b[1] + a[2] * b[2] + a[3] * b[3]

\* Vertex number j (1..6) of face k, through the index array.
IndexedVertex(k, j) == mesh.vertices[mesh.indices[6 * (k - 1) + j] + 1]

\* Right-hand-rule normal of triangle t (0 or 1) of face k.
TriangleNormal(k, t) ==
    Cross(Minus(IndexedVertex(k, 3 * t + 2), IndexedVertex(k, 3 * t + 1)),
          Minus(IndexedVertex(k, 3 * t + 3), IndexedVertex(k, 3 * t + 1)))

\* 1 when the first triangle of face k is wound counter-clockwise seen from
\* outside the voxel, -1 when clockwise.
WindingSign(k) == Dot(TriangleNormal(k, 0), UnitVector(mesh.faces[k][2]))

C21_UniformWinding ==
    (Len(mesh.vertices) = 4 * Len(mesh.faces) /\ Len(mesh.indices) = 6 * Len(mesh.faces)) =>
        /\ \A k \in DOMAIN mesh.faces :
               /\ Cross(TriangleNormal(k, 0), TriangleNormal(k, 1)) = << 0, 0, 0 >>
               /\ Dot(TriangleNormal(k, 0), TriangleNormal(k, 1)) > 0
               /\ WindingSign(k) # 0
        /\ \A k1, k2 \in DOMAIN mesh.faces : WindingSign(k1) = WindingSign(k2)

(***************************************************************************)
(* C22.  In the chunk generated at chunk coordinate c, the voxel whose id  *)
(* is x*CHUNK_HEIGHT*CHUNK_SIZE + y*CHUNK_SIZE + z carries the material    *)
(* the chain gives world Y c.y*CHUNK_HEIGHT + y against the height of      *)
(* world column (c.x*CHUNK_SIZE + x, c.z*CHUNK_SIZE + z): the heightmap    *)
(* entry read for local (x, z) is the one written for local (x, z).        *)
(***************************************************************************)
C22_HeightOfOwnColumn ==
    \A c \in DOMAIN chunk_map :
        \A x \in 0 .. CHUNK_SIZE - 1, y \in 0 .. CHUNK_HEIGHT - 1, z \in 0 .. CHUNK_SIZE - 1 :
            \A i \in DOMAIN chunk_map[c].voxels :
                chunk_map[c].voxels[i].id = x * CHUNK_HEIGHT * CHUNK_SIZE + y * CHUNK_SIZE + z
                => chunk_map[c].voxels[i].block_type =
                       block_type_of(c.y * CHUNK_HEIGHT + y,
                                     final_noise_value(seed, c.x * CHUNK_SIZE + x,
                                                             c.z * CHUNK_SIZE + z))

(***************************************************************************)
(* C23.  No air at or below the surface: for every column height h from 0  *)
(* to the full chunk height and every world Y wy with 0 <= wy <= h, the    *)
(* voxel create_chunk_voxels makes is solid and its material is not Air.   *)
(***************************************************************************)
C23_NoAirBelowSurface ==
    ( /\ ret.fn = "block_type"
      /\ 0 <= call.heightmap_value /\ call.heightmap_value <= FullChunkHeight
      /\ 0 <= call.voxel_y /\ call.voxel_y <= call.heightmap_value )
    => (ret.is_solid /\ ret.block_type # "Air")

(***************************************************************************)
(* C24.  MeshCollection::insert_mesh preserves each mesh's triangles:      *)
(* after any sequence of insert_mesh calls, every index contributed by an  *)
(* inserted mesh refers, in the collection's vertices array, to the vertex *)
(* position it referred to in that mesh's own vertices array.              *)
(***************************************************************************)
RECURSIVE IndicesBefore(_)
IndicesBefore(n) == IF n <= 1 THEN 0 ELSE IndicesBefore(n - 1) + Len(inserted[n - 1].indices)

C24_InsertMeshKeepsTriangles ==
    \A n \in DOMAIN inserted : \A j \in DOMAIN inserted[n].indices :
        LET at == collection.indices[IndicesBefore(n) + j]
        IN  /\ at + 1 \in DOMAIN collection.vertices
            /\ collection.vertices[at + 1] = inserted[n].vertices[inserted[n].indices[j] + 1]

====
